---- MODULE Spec2Model ----
(***************************************************************************)
(* Two-stage retrieval of the constitution RAG pipeline:                   *)
(*   ConstitutionRetriever.retrieve  (src/src/rag_pipeline/retriever.py)   *)
(*   CrossEncoderReranker.rerank     (src/src/rag_pipeline/reranker.py)    *)
(* A call is a small state machine; every external collaborator (the       *)
(* embedding model, the Chroma collection, the cross-encoder) either       *)
(* answers or raises, and an exception is propagated exactly as the code   *)
(* propagates it (there is no try/except in either class).                 *)
(***************************************************************************)
EXTENDS Integers, Sequences, FiniteSets, TLC

\* ------------------------------------------------------------------ bounds
MaxScore == 2          \* rerank scores (logits) are drawn from 1..MaxScore
MaxN == 5              \* n_initial ranges over 0..MaxN, n_final over -1..MaxN+1
MaxBatch == 3          \* batch sizes of direct rerank calls: 1..MaxBatch
MaxOldLines == 1       \* lines of the interaction log older than the client
                       \* call are counted up to MaxOldLines

\* --------------------------------------------------------- program constants
DefaultBatchSize == 8  \* rerank(..., batch_size: int = 8)
DefaultNInitial == 10  \* answer_question(..., n_initial: int = 10, ...)
DefaultNFinal == 5     \* answer_question(..., n_final: int = 5)
DefaultMaxRetries == 3 \* ConstitutionQA(..., max_retries: int = 3, ...)
HttpOk == 200          \* status.HTTP_200_OK
HttpInternalServerError == 500   \* status.HTTP_500_INTERNAL_SERVER_ERROR

\* ------------------------------------------------------------- input domains
Queries == {"q1", "q2"}
Texts == {"t1", "t2"}
Scores == 1..MaxScore
\* relevance_threshold: float = 0.5, on the scale of the model's scores: the
\* top score passes it, the scores below do not
DefaultThreshold == MaxScore
Thresholds == 1..(MaxScore + 1)
NInitials == 0..MaxN
NFinals == (-1)..(MaxN + 1)
BatchSizes == 1..MaxBatch

Min(a, b) == IF a <= b THEN a ELSE b
Max(a, b) == IF a >= b THEN a ELSE b
Abs(a) == IF a >= 0 THEN a ELSE -a

\* The stored documents: text, metadata and the position of the embedding.
\* Documents share texts, so equal rerank scores always occur; the metadata
\* of every document is its own.
Corpus ==
  << [text |-> "t1", metadata |-> [article_number |-> "a1", chapter |-> "c1"], emb |-> 0],
     [text |-> "t2", metadata |-> [article_number |-> "a2", chapter |-> "c1"], emb |-> 0],
     [text |-> "t1", metadata |-> [article_number |-> "a3", chapter |-> "c2"], emb |-> 1],
     [text |-> "t2", metadata |-> [article_number |-> "a4", chapter |-> "c2"], emb |-> 2],
     [text |-> "t1", metadata |-> [article_number |-> "a5", chapter |-> "c2"], emb |-> 2] >>

\* The sentinel results of a call.
NoResult == [kind |-> "pending"]
NoneResult == [kind |-> "None"]
ListResult(docs) == [kind |-> "list", docs |-> docs]

\* Python's None, no prompt built yet, no HTTP response yet.
NoneValue == [kind |-> "None"]
NoPrompt == [kind |-> "none"]
NoResponse == [kind |-> "none"]

\* No earlier call is remembered.
NoPrev == [kind |-> "none"]

\* The frame of a thread that is in no call.
IdleCall ==
  [pc |-> "idle", caller |-> "none", query |-> "q1", n_initial |-> 0,
   n_final |-> 0, relevance_threshold |-> 1, batch_size |-> DefaultBatchSize,
   query_embedding |-> 0, retrieved_docs |-> <<>>, documents |-> <<>>,
   pairs |-> <<>>, scores |-> <<>>, i |-> 0, reranked_docs |-> <<>>,
   filtered_docs |-> <<>>, result |-> NoResult, error |-> "none",
   stages |-> <<>>, failed |-> "none", rerank_input |-> <<>>,
   deadline_passed |-> FALSE]

VARIABLES
  use_reranker,         \* self.use_reranker
  reranker,             \* self.reranker: "CrossEncoderReranker" or "None"
  collection,           \* self.collection: the stored documents
  logits,               \* the cross-encoder: (query, text) -> score
  pc,                   \* position of the call in progress
  caller,               \* the operation the client invoked: "retrieve" or "rerank"
  query, n_initial, n_final, relevance_threshold, batch_size,
  query_embedding,      \* retrieve: query_embedding
  retrieved_docs,       \* retrieve: retrieved_docs
  documents,            \* rerank: documents (the shallow copy, same dicts)
  pairs,                \* rerank: pairs
  scores,               \* rerank: scores
  i,                    \* rerank: start of the next batch
  reranked_docs,        \* what rerank returned
  filtered_docs,        \* retrieve: filtered_docs
  result,               \* the value returned to the client
  error,                \* the exception raised to the client, "none" if none
  stages,               \* the collaborator invocations of this call, in order
  failed,               \* the collaborator that raised in this call, "none" if none
  rerank_input,         \* the documents argument of rerank as it was passed
  deadline_passed,      \* the time allowed to the call in progress has run out
  prev,                 \* the previous call of a client that repeats its call
  parked,               \* the call of the thread that is not running
  max_retries,          \* ConstitutionQA: self.max_retries
  client,               \* the entry point a client called: "answer_question",
                        \* "ask", "answer_batch", or "none"
  aq_pc,                \* position of the answer_question call in progress
  aq_query,             \* answer_question: query
  aq_documents,         \* answer_question: documents
  prompt_vars,          \* answer_question: prompt_vars
  attempt,              \* answer_question: attempt
  response_text,        \* answer_question: response_text
  aq_exc,               \* answer_question: the exception e its handler caught
  aq_result,            \* the dict answer_question returned
  aq_raised,            \* the exception that left answer_question, "none" if none
  log,                  \* data/logs/interactions.jsonl: the lines appended
                        \* since the client call began
  old_lines,            \* the number of lines the file held before that
  http,                 \* the response of /ask
  batch_queries,        \* answer_batch: queries
  batch_results,        \* answer_batch: results
  retrieval,            \* how retrieve ended in this answer_question call
  attempts,             \* the outcomes of the chain invocations of this call
  retrieve_calls,       \* the retrieve calls made by this answer_question call
  log_at_start,         \* Len(log) when this answer_question call began
  log_failed            \* a log write has failed since the client call began

config == <<use_reranker, reranker, collection, logits>>
args == <<caller, query, n_initial, n_final, relevance_threshold, batch_size>>
locals == <<query_embedding, retrieved_docs, documents, pairs, scores, i,
            reranked_docs, filtered_docs>>
history == <<stages, failed, rerank_input>>
\* the state of one call: its frame, its outcome and its history
call == <<args, locals, pc, result, error, history, deadline_passed>>
\* what lies outside the retriever and the call in progress
\* the question-answering layer above the retriever
aq_frame == <<aq_pc, aq_query, aq_documents, prompt_vars, attempt, response_text,
              aq_exc, aq_result, aq_raised>>
aq_history == <<retrieval, attempts, retrieve_calls, log_at_start, log_failed>>
qa == <<max_retries, client, aq_frame, log, old_lines, http, batch_queries,
        batch_results, aq_history>>
outer == <<prev, parked, qa>>
vars == <<config, call, outer>>

\* --------------------------------------------------------- pure functions

\* dict[k] = v on a Python dict (adds the key when it is absent)
SetItem(d, k, v) == [f \in (DOMAIN d) \cup {k} |-> IF f = k THEN v ELSE d[f]]

\* lst[:n] of Python, negative n included
SliceTo(s, n) ==
  SubSeq(s, 1, IF n >= 0 THEN Min(n, Len(s)) ELSE Max(Len(s) + n, 0))

\* lst[a:a+n] of Python for a >= 0, n >= 1
SliceFrom(s, a, n) == SubSeq(s, a + 1, Min(a + n, Len(s)))

\* embedding_model.encode([query], normalize_embeddings=True)
Encode(q) == IF q = "q1" THEN 0 ELSE 2

\* cosine distance of a stored embedding to the query embedding, in [0, 2]
Distance(e, d) == Abs(e - d.emb)

\* insertion of x into a sequence sorted by ascending key, after equal keys
RECURSIVE InsertAsc(_, _, _)
InsertAsc(s, x, e) ==
  IF s = <<>> THEN <<x>>
  ELSE IF Distance(e, Head(s)) <= Distance(e, x)
       THEN <<Head(s)>> \o InsertAsc(Tail(s), x, e)
       ELSE <<x>> \o s

RECURSIVE ByDistance(_, _)
ByDistance(s, e) ==
  IF s = <<>> THEN <<>>
  ELSE InsertAsc(ByDistance(SubSeq(s, 1, Len(s) - 1), e), s[Len(s)], e)

\* collection.query(query_embeddings, n_results, include=[...]): the three
\* parallel lists of the nearest n_results stored documents
CollectionQuery(coll, e, n) ==
  LET hits == SubSeq(ByDistance(coll, e), 1, Min(Max(n, 0), Len(coll)))
  IN [documents |-> [k \in 1..Len(hits) |-> hits[k].text],
      metadatas |-> [k \in 1..Len(hits) |-> hits[k].metadata],
      distances |-> [k \in 1..Len(hits) |-> Distance(e, hits[k])]]

\* the loop that builds retrieved_docs from the query results
BuildDocs(results) ==
  [k \in 1..Len(results.documents) |->
     [text |-> results.documents[k],
      metadata |-> results.metadatas[k],
      distance |-> results.distances[k]]]

\* the pairs built with a query other than the one passed in
MakePairsStaleQuery(q, docs) == [k \in 1..Len(docs) |-> <<"q1", docs[k].text>>]

\* pairs = [(query, doc["text"]) for doc in documents]
MakePairs(q, docs) == [k \in 1..Len(docs) |-> <<q, docs[k].text>>]

\* every pair of a batch given the score of the first pair of the batch
BatchScoresOfFirstPair(model, batch) == [k \in 1..Len(batch) |-> model[batch[1]]]

\* the scores of a batch attached in reverse order
BatchScoresReversed(model, batch) ==
  [k \in 1..Len(batch) |-> model[batch[Len(batch) + 1 - k]]]

\* outputs.logits.view(-1) for one batch of pairs
BatchScores(model, batch) == [k \in 1..Len(batch) |-> model[batch[k]]]

\* for doc, score in zip(documents, scores): doc["rerank_score"] = float(score)
AssignScores(docs, scs) ==
  [k \in 1..Len(docs) |->
     IF k <= Len(scs) THEN SetItem(docs[k], "rerank_score", scs[k]) ELSE docs[k]]

\* insertion before equal scores: what reversing an ascending sort gives
RECURSIVE InsertDescBeforeTies(_, _)
InsertDescBeforeTies(s, x) ==
  IF s = <<>> THEN <<x>>
  ELSE IF Head(s).rerank_score > x.rerank_score
       THEN <<Head(s)>> \o InsertDescBeforeTies(Tail(s), x)
       ELSE <<x>> \o s

\* insertion of x into a sequence sorted by descending score, after equal scores
RECURSIVE InsertDesc(_, _)
InsertDesc(s, x) ==
  IF s = <<>> THEN <<x>>
  ELSE IF Head(s).rerank_score >= x.rerank_score
       THEN <<Head(s)>> \o InsertDesc(Tail(s), x)
       ELSE <<x>> \o s

\* the list returned without sorting it
Unsorted(docs) == docs

\* sorted(documents, key=lambda x: x["rerank_score"], reverse=True)
RECURSIVE SortedByScore(_)
SortedByScore(docs) ==
  IF docs = <<>> THEN <<>>
  ELSE InsertDesc(SortedByScore(SubSeq(docs, 1, Len(docs) - 1)), docs[Len(docs)])

\* the batch loop of rerank run to its end from position a: the scores list
RECURSIVE ScoresFrom(_, _, _, _)
ScoresFrom(model, prs, a, bs) ==
  IF a >= Len(prs) THEN <<>>
  ELSE BatchScores(model, SliceFrom(prs, a, bs)) \o ScoresFrom(model, prs, a + bs, bs)

\* rerank(query, documents, batch_size) when no batch fails
RerankValue(model, q, docs, bs) ==
  SortedByScore(AssignScores(docs, ScoresFrom(model, MakePairs(q, docs), 0, bs)))

\* the comparison made strict
PassesThresholdStrict(doc, th) == doc.rerank_score > th

\* doc["rerank_score"] >= relevance_threshold
PassesThreshold(doc, th) == doc.rerank_score >= th

\* [doc for doc in reranked_docs if doc["rerank_score"] >= relevance_threshold]
RECURSIVE FilterDocs(_, _)
FilterDocs(docs, th) ==
  IF docs = <<>> THEN <<>>
  ELSE (IF PassesThreshold(Head(docs), th) THEN <<Head(docs)>> ELSE <<>>)
       \o FilterDocs(Tail(docs), th)

\* the cut taken from the end of the list: filtered_docs[-n_final:]
TruncateTail(docs, n) ==
  IF docs = <<>> \/ n <= 0 THEN <<>>
  ELSE SubSeq(docs, Max(Len(docs) - n, 0) + 1, Len(docs))

\* filtered_docs[:n_final], [] when nothing passed
Truncate(docs, n) == IF docs = <<>> THEN <<>> ELSE SliceTo(docs, n)

\* ------------------------------------------------------------------- state

\* the retriever after ConstitutionRetriever.__init__
InitRetriever ==
  /\ use_reranker \in BOOLEAN
  /\ reranker = IF use_reranker THEN "CrossEncoderReranker" ELSE "None"
  /\ collection \in {SubSeq(Corpus, 1, k) : k \in {0, Len(Corpus)}}

\* nothing is in progress
InitIdle ==
  /\ pc = "idle"
  /\ caller = "none"
  /\ query = "q1" /\ n_initial = 0 /\ n_final = 0
  /\ relevance_threshold = 1 /\ batch_size = DefaultBatchSize
  /\ query_embedding = 0
  /\ retrieved_docs = <<>> /\ documents = <<>> /\ pairs = <<>> /\ scores = <<>>
  /\ i = 0
  /\ reranked_docs = <<>> /\ filtered_docs = <<>>
  /\ result = NoResult
  /\ error = "none"
  /\ stages = <<>>
  /\ failed = "none"
  /\ rerank_input = <<>>
  /\ deadline_passed = FALSE
  /\ prev = NoPrev
  /\ parked = IdleCall
  /\ client = "none"
  /\ aq_pc = "idle" /\ aq_query = "q1" /\ aq_documents = <<>>
  /\ prompt_vars = NoPrompt /\ attempt = 0 /\ response_text = NoneValue
  /\ aq_exc = "none" /\ aq_result = NoResult /\ aq_raised = "none"
  /\ log = <<>> /\ old_lines = 0
  /\ http = NoResponse
  /\ batch_queries = <<>> /\ batch_results = <<>>
  /\ retrieval = "none" /\ attempts = <<>> /\ retrieve_calls = 0
  /\ log_at_start = 0 /\ log_failed = FALSE

Init ==
  /\ InitRetriever
  /\ logits \in [Queries \X Texts -> Scores]
  /\ max_retries = DefaultMaxRetries
  /\ InitIdle

ResetLocals ==
  /\ query_embedding' = 0
  /\ retrieved_docs' = <<>> /\ documents' = <<>> /\ pairs' = <<>> /\ scores' = <<>>
  /\ i' = 0
  /\ reranked_docs' = <<>> /\ filtered_docs' = <<>>

\* the exception each collaborator raises when it fails
ExceptionOf(collaborator) ==
  CASE collaborator = "embedding_model" -> "EmbeddingBackendError"
    [] collaborator = "collection" -> "VectorIndexError"
    [] collaborator = "reranker_model" -> "ScoringModelError"

\* an exception leaves the call: nothing catches it on the way to the client
Propagate(exc) ==
  /\ pc' = "done"
  /\ error' = exc
  /\ result' = NoResult

\* the call returns r to the client
ReturnValue(r) ==
  /\ pc' = "done"
  /\ error' = "none"
  /\ result' = r

\* ---------------------------------------------------------------- retrieve

\* a client calls retrieve(query, n_initial, n_final, relevance_threshold)
StartRetrieve(q, ni, nf, th) ==
  /\ pc' = "embed"
  /\ caller' = "retrieve"
  /\ query' = q /\ n_initial' = ni /\ n_final' = nf /\ relevance_threshold' = th
  /\ batch_size' = DefaultBatchSize
  /\ ResetLocals
  /\ result' = NoResult /\ error' = "none"
  /\ stages' = <<>> /\ failed' = "none" /\ rerank_input' = <<>>
  /\ deadline_passed' = FALSE
  /\ UNCHANGED config

Retrieve(q, ni, nf, th) ==
  /\ pc = "idle"
  /\ StartRetrieve(q, ni, nf, th)
  /\ UNCHANGED outer

\* query_embedding = self.embedding_model.encode([query], ...)
Embed ==
  /\ UNCHANGED <<deadline_passed, outer>>
  /\ pc = "embed"
  /\ query_embedding' = Encode(query)
  /\ stages' = Append(stages, "embed")
  /\ pc' = "query"
  /\ UNCHANGED <<config, args, retrieved_docs, documents, pairs, scores, i,
                 reranked_docs, filtered_docs, result, error, failed,
                 rerank_input>>

\* the embedding model raises
EmbedFails ==
  /\ UNCHANGED <<deadline_passed, outer>>
  /\ pc = "embed"
  /\ stages' = Append(stages, "embed")
  /\ failed' = "embedding_model"
  /\ Propagate(ExceptionOf("embedding_model"))
  /\ UNCHANGED <<config, args, locals, rerank_input>>

\* retrieve without its empty check
AfterQueryNoEmptyCheck(docs, ur, rr) ==
  IF ur /\ rr # "None" THEN "rerank" ELSE "fall_through"

\* what retrieve does once retrieved_docs is built: the empty check, then
\* the branch on self.use_reranker and self.reranker
AfterQuery(docs, ur, rr) ==
  IF docs = <<>> THEN "return_empty"
  ELSE IF ur /\ rr # "None" THEN "rerank"
  ELSE "fall_through"

\* results = self.collection.query(...); the loop over the results; the
\* empty check; the branch on self.use_reranker
QueryIndex ==
  /\ UNCHANGED <<deadline_passed, outer>>
  /\ pc = "query"
  /\ LET results == CollectionQuery(collection, query_embedding, n_initial)
         docs == BuildDocs(results)
         step == AfterQuery(docs, use_reranker, reranker)
     IN /\ retrieved_docs' = docs
        /\ CASE step = "return_empty" ->
                  /\ ReturnValue(ListResult(<<>>))
                  /\ stages' = Append(stages, "query")
                  /\ UNCHANGED <<documents, pairs, scores, i, rerank_input>>
             [] step = "rerank" ->
                  \* self.reranker.rerank(query, retrieved_docs.copy())
                  /\ documents' = docs
                  /\ rerank_input' = docs
                  /\ pairs' = MakePairs(query, docs)
                  /\ scores' = <<>>
                  /\ i' = 0
                  /\ pc' = "rerank"
                  /\ stages' = stages \o <<"query", "rerank">>
                  /\ UNCHANGED <<result, error>>
             [] step = "fall_through" ->
                  \* the function body ends without a return statement
                  /\ ReturnValue(NoneResult)
                  /\ stages' = Append(stages, "query")
                  /\ UNCHANGED <<documents, pairs, scores, i, rerank_input>>
  /\ UNCHANGED <<config, args, query_embedding, reranked_docs, filtered_docs,
                 failed>>

\* the failure of the collection swallowed into an empty result
QueryIndexFailsSwallowed ==
  /\ UNCHANGED <<deadline_passed, outer>>
  /\ pc = "query"
  /\ stages' = Append(stages, "query")
  /\ failed' = "collection"
  /\ ReturnValue(ListResult(<<>>))
  /\ UNCHANGED <<config, args, locals, rerank_input>>

\* the collection raises
QueryIndexFails ==
  /\ UNCHANGED <<deadline_passed, outer>>
  /\ pc = "query"
  /\ stages' = Append(stages, "query")
  /\ failed' = "collection"
  /\ Propagate(ExceptionOf("collection"))
  /\ UNCHANGED <<config, args, locals, rerank_input>>

\* ------------------------------------------------------------------ rerank

\* a client calls rerank(query, documents, batch_size) directly
Rerank(q, docs, bs) ==
  /\ pc = "idle"
  /\ reranker # "None"
  /\ caller' = "rerank"
  /\ query' = q /\ batch_size' = bs
  /\ n_initial' = 0 /\ n_final' = 0 /\ relevance_threshold' = 1
  /\ query_embedding' = 0 /\ retrieved_docs' = <<>>
  /\ reranked_docs' = <<>> /\ filtered_docs' = <<>>
  /\ documents' = docs
  /\ pairs' = MakePairs(q, docs)
  /\ scores' = <<>>
  /\ i' = 0
  /\ pc' = "rerank"
  /\ result' = NoResult /\ error' = "none"
  /\ stages' = <<"rerank">> /\ failed' = "none" /\ rerank_input' = docs
  /\ deadline_passed' = FALSE
  /\ UNCHANGED <<config, outer>>

\* a model that is not frozen: scoring a batch shifts the scores it gives
ScoreBatchUpdatesModel ==
  /\ UNCHANGED <<deadline_passed, outer>>
  /\ pc = "rerank"
  /\ i < Len(pairs)
  /\ scores' = scores \o BatchScores(logits, SliceFrom(pairs, i, batch_size))
  /\ logits' = [p \in DOMAIN logits |-> (logits[p] % MaxScore) + 1]
  /\ i' = i + batch_size
  /\ stages' = Append(stages, "batch")
  /\ UNCHANGED <<use_reranker, reranker, collection, args, pc, query_embedding,
                 retrieved_docs, documents, pairs, reranked_docs, filtered_docs,
                 result, error, failed, rerank_input>>

\* one iteration of the batch loop: the model scores pairs[i:i+batch_size]
ScoreBatch ==
  /\ UNCHANGED <<deadline_passed, outer>>
  /\ pc = "rerank"
  /\ i < Len(pairs)
  /\ scores' = scores \o BatchScores(logits, SliceFrom(pairs, i, batch_size))
  /\ i' = i + batch_size
  /\ stages' = Append(stages, "batch")
  /\ UNCHANGED <<config, args, pc, query_embedding, retrieved_docs, documents,
                 pairs, reranked_docs, filtered_docs, result, error, failed,
                 rerank_input>>

\* the failure of a batch replaced by a default score for each of its pairs
ScoreBatchFailsDefaultScore ==
  /\ UNCHANGED <<deadline_passed, outer>>
  /\ pc = "rerank"
  /\ i < Len(pairs)
  /\ scores' = scores \o [k \in 1..Len(SliceFrom(pairs, i, batch_size)) |-> 0]
  /\ i' = i + batch_size
  /\ stages' = Append(stages, "batch")
  /\ failed' = "reranker_model"
  /\ UNCHANGED <<config, args, pc, query_embedding, retrieved_docs, documents,
                 pairs, reranked_docs, filtered_docs, result, error,
                 rerank_input>>

\* the tokenizer or the model raises on the batch
ScoreBatchFails ==
  /\ UNCHANGED <<deadline_passed, outer>>
  /\ pc = "rerank"
  /\ i < Len(pairs)
  /\ stages' = Append(stages, "batch")
  /\ failed' = "reranker_model"
  /\ Propagate(ExceptionOf("reranker_model"))
  /\ UNCHANGED <<config, args, locals, rerank_input>>

\* rerank writing the scores into the stored documents of the index
RerankFinishScoresIndex ==
  /\ UNCHANGED <<deadline_passed, outer>>
  /\ pc = "rerank"
  /\ i >= Len(pairs)
  /\ LET scored == AssignScores(documents, scores)
         sorted == SortedByScore(scored)
     IN /\ documents' = scored
        /\ reranked_docs' = sorted
        /\ collection' = [k \in 1..Len(collection) |->
                            SetItem(collection[k], "rerank_score",
                                    logits[<<query, collection[k].text>>])]
        /\ IF caller = "retrieve"
           THEN /\ retrieved_docs' = scored
                /\ pc' = "filter"
                /\ UNCHANGED <<result, error>>
           ELSE /\ ReturnValue(ListResult(sorted))
                /\ UNCHANGED retrieved_docs
  /\ UNCHANGED <<use_reranker, reranker, logits, args, query_embedding, pairs,
                 scores, i, filtered_docs, history>>

\* after the loop: the scores are written into the dicts, the list is
\* sorted and returned
RerankFinish ==
  /\ UNCHANGED <<deadline_passed, outer>>
  /\ pc = "rerank"
  /\ i >= Len(pairs)
  /\ LET scored == AssignScores(documents, scores)
         sorted == SortedByScore(scored)
     IN /\ documents' = scored
        /\ reranked_docs' = sorted
        /\ IF caller = "retrieve"
           THEN \* retrieved_docs holds the same dict objects
                /\ retrieved_docs' = scored
                /\ pc' = "filter"
                /\ UNCHANGED <<result, error>>
           ELSE /\ ReturnValue(ListResult(sorted))
                /\ UNCHANGED retrieved_docs
  /\ UNCHANGED <<config, args, query_embedding, pairs, scores, i,
                 filtered_docs, history>>

\* retrieve, after rerank has returned: the threshold filter and the cut
Filter ==
  /\ UNCHANGED <<deadline_passed, outer>>
  /\ pc = "filter"
  /\ LET kept == FilterDocs(reranked_docs, relevance_threshold)
     IN /\ filtered_docs' = kept
        /\ ReturnValue(ListResult(Truncate(kept, n_final)))
  /\ stages' = Append(stages, "filter")
  /\ UNCHANGED <<config, args, query_embedding, retrieved_docs, documents,
                 pairs, scores, i, reranked_docs, failed, rerank_input>>

\* the frame of the finished call is gone
ReturnToIdle ==
  /\ pc' = "idle"
  /\ caller' = "none"
  /\ query' = "q1" /\ n_initial' = 0 /\ n_final' = 0
  /\ relevance_threshold' = 1 /\ batch_size' = DefaultBatchSize
  /\ ResetLocals
  /\ result' = NoResult /\ error' = "none"
  /\ stages' = <<>> /\ failed' = "none" /\ rerank_input' = <<>>
  /\ deadline_passed' = FALSE
  /\ UNCHANGED config

\* the client has taken the result or the exception; the retriever is idle
Complete ==
  /\ pc = "done"
  /\ ReturnToIdle
  /\ UNCHANGED outer

\* the candidate lists a client can hand to rerank: what the index returns
CandidateLists ==
  {BuildDocs(CollectionQuery(collection, Encode(q), n)) : q \in Queries, n \in NInitials}

Next ==
  \/ \E q \in Queries, ni \in NInitials, nf \in NFinals, th \in Thresholds :
       Retrieve(q, ni, nf, th)
  \/ Embed
  \/ EmbedFails
  \/ QueryIndex
  \/ QueryIndexFails
  \/ \E q \in Queries, docs \in CandidateLists, bs \in BatchSizes :
       Rerank(q, docs, bs)
  \/ ScoreBatch
  \/ ScoreBatchFails
  \/ RerankFinish
  \/ Filter
  \/ Complete

Spec == Init /\ [][Next]_vars

\* ------------------------------------------------- the steps of a call

RetrieveStep ==
  \/ Embed
  \/ EmbedFails
  \/ QueryIndex
  \/ QueryIndexFails
  \/ ScoreBatch
  \/ ScoreBatchFails
  \/ RerankFinish
  \/ Filter

\* smaller argument sets for the specifications that run more than one call
SomeNInitials == {0, 3, MaxN}
SomeNFinals == {-1, 0, 2, MaxN + 1}

\* what retrieve(q, ni, nf, th) returns when no collaborator fails
RetrieveValue(q, ni, nf, th) ==
  LET docs == BuildDocs(CollectionQuery(collection, Encode(q), ni))
      step == AfterQuery(docs, use_reranker, reranker)
  IN CASE step = "return_empty" -> ListResult(<<>>)
       [] step = "fall_through" -> NoneResult
       [] step = "rerank" ->
            ListResult(Truncate(FilterDocs(RerankValue(logits, q, docs, DefaultBatchSize), th), nf))

\* ------------------------------------------------------------ time passing

\* the time allowed to the call runs out while the call is in progress;
\* retrieve has no timer and no handler, nothing in the call changes
DeadlinePasses ==
  /\ caller = "retrieve"
  /\ pc \in {"embed", "query", "rerank", "filter"}
  /\ ~deadline_passed
  /\ deadline_passed' = TRUE
  /\ UNCHANGED <<config, args, locals, pc, result, error, history, outer>>

NextTimed ==
  \/ \E q \in Queries, ni \in SomeNInitials, nf \in SomeNFinals, th \in Thresholds :
       Retrieve(q, ni, nf, th)
  \/ RetrieveStep
  \/ DeadlinePasses
  \/ Complete

SpecTimed == Init /\ [][NextTimed]_vars

\* ------------------------------------------------- the same call, twice

\* a first call of a client that will repeat it
RetrieveFirst(q, ni, nf, th) ==
  /\ prev = NoPrev
  /\ Retrieve(q, ni, nf, th)

\* the client keeps the arguments and the outcome of its first call
CompleteRecord ==
  /\ pc = "done"
  /\ prev = NoPrev
  /\ prev' = [kind |-> "first", query |-> query, n_initial |-> n_initial,
              n_final |-> n_final, relevance_threshold |-> relevance_threshold,
              result |-> result, error |-> error, failed |-> failed]
  /\ ReturnToIdle
  /\ UNCHANGED <<parked, qa>>

\* the client calls retrieve again with the arguments of its first call
RetrieveAgain ==
  /\ pc = "idle"
  /\ prev.kind = "first"
  /\ StartRetrieve(prev.query, prev.n_initial, prev.n_final, prev.relevance_threshold)
  /\ prev' = [prev EXCEPT !.kind = "repeated"]
  /\ UNCHANGED <<parked, qa>>

\* the client has compared the two outcomes
CompleteRepeat ==
  /\ pc = "done"
  /\ prev.kind = "repeated"
  /\ prev' = NoPrev
  /\ ReturnToIdle
  /\ UNCHANGED <<parked, qa>>

NextRepeat ==
  \/ \E q \in Queries, ni \in SomeNInitials, nf \in SomeNFinals, th \in Thresholds :
       RetrieveFirst(q, ni, nf, th)
  \/ RetrieveStep
  \/ CompleteRecord
  \/ RetrieveAgain
  \/ CompleteRepeat

SpecRepeat == Init /\ [][NextRepeat]_vars

\* ----------------------------------------------------- two threads

\* the frame of the running call
CallState ==
  [pc |-> pc, caller |-> caller, query |-> query, n_initial |-> n_initial,
   n_final |-> n_final, relevance_threshold |-> relevance_threshold,
   batch_size |-> batch_size, query_embedding |-> query_embedding,
   retrieved_docs |-> retrieved_docs, documents |-> documents,
   pairs |-> pairs, scores |-> scores, i |-> i,
   reranked_docs |-> reranked_docs, filtered_docs |-> filtered_docs,
   result |-> result, error |-> error, stages |-> stages, failed |-> failed,
   rerank_input |-> rerank_input, deadline_passed |-> deadline_passed]

\* the thread of frame c runs; nf is the value it finds in n_final
Resume(c, nf) ==
  /\ pc' = c.pc /\ caller' = c.caller /\ query' = c.query
  /\ n_initial' = c.n_initial /\ n_final' = nf
  /\ relevance_threshold' = c.relevance_threshold
  /\ batch_size' = c.batch_size /\ query_embedding' = c.query_embedding
  /\ retrieved_docs' = c.retrieved_docs /\ documents' = c.documents
  /\ pairs' = c.pairs /\ scores' = c.scores /\ i' = c.i
  /\ reranked_docs' = c.reranked_docs /\ filtered_docs' = c.filtered_docs
  /\ result' = c.result /\ error' = c.error /\ stages' = c.stages
  /\ failed' = c.failed /\ rerank_input' = c.rerank_input
  /\ deadline_passed' = c.deadline_passed

\* a context switch where n_final is kept on the retriever, not in the frame
SwitchSharingNFinal ==
  /\ parked' = CallState
  /\ Resume(parked, n_final)
  /\ UNCHANGED <<config, prev, qa>>

\* the scheduler runs the other thread: every argument and local of a call
\* lives in the frame of its thread, the retriever's attributes are shared
Switch ==
  /\ parked' = CallState
  /\ Resume(parked, parked.n_final)
  /\ UNCHANGED <<config, prev, qa>>

ConcurrentNFinals == {1, MaxN}
ConcurrentThresholds == {1, MaxScore}

NextConcurrent ==
  \/ \E q \in Queries, nf \in ConcurrentNFinals, th \in ConcurrentThresholds :
       Retrieve(q, MaxN, nf, th)
  \/ RetrieveStep
  \/ Switch
  \/ Complete

InitConcurrent == Init /\ collection # <<>>

SpecConcurrent == InitConcurrent /\ [][NextConcurrent]_vars

\* ------------------------------------------------------------- properties

InSeq(x, s) == \E k \in 1..Len(s) : s[k] = x
CountIn(x, s) == Cardinality({k \in 1..Len(s) : s[k] = x})
LastOf(s) == s[Len(s)]
HasScore(d) == "rerank_score" \in DOMAIN d
Strip(d) == [text |-> d.text, metadata |-> d.metadata, distance |-> d.distance]
Descending(s) ==
  \A k \in 1..(Len(s) - 1) : s[k].rerank_score >= s[k + 1].rerank_score

\* retrieve has returned a value to its client
RetrieveReturned == pc = "done" /\ caller = "retrieve" /\ error = "none"
\* retrieve has returned from its last statement, after the filter
FilterRan == RetrieveReturned /\ stages # <<>> /\ LastOf(stages) = "filter"
\* rerank has returned its list
RerankReturned ==
  pc \in {"filter", "done"} /\ failed = "none" /\ InSeq("rerank", stages)
\* the candidates of this call whose rerank score reaches the threshold
Passing ==
  {k \in 1..Len(retrieved_docs) :
     /\ HasScore(retrieved_docs[k])
     /\ retrieved_docs[k].rerank_score >= relevance_threshold}

\* C1: a retrieve call with n_initial >= n_final >= 0 that completes without
\* error returns a sequence whose length is min(n_final, number of
\* candidates whose rerank score is >= relevance_threshold).
C1_LengthIsMin ==
  (RetrieveReturned /\ n_initial >= n_final /\ n_final >= 0)
    => /\ result.kind = "list"
       /\ Len(result.docs) = Min(n_final, Cardinality(Passing))

\* C2: every retrieve call that completes without error returns a sequence,
\* with the reranker enabled or disabled.
C2_ReturnsSequence == RetrieveReturned => result.kind = "list"

C4_RerankFailurePropagates ==
  /\ failed = "reranker_model"
       => /\ pc = "done"
          /\ error = ExceptionOf("reranker_model")
          /\ result = NoResult
          /\ reranked_docs = <<>>
          /\ \A k \in 1..Len(documents) : ~HasScore(documents[k])
          /\ \A k \in 1..Len(retrieved_docs) : ~HasScore(retrieved_docs[k])
  /\ \A k \in 1..Len(documents) :
       HasScore(documents[k])
         => documents[k].rerank_score = logits[<<query, documents[k].text>>]
  /\ result.kind = "list"
       => \A k \in 1..Len(result.docs) :
            /\ HasScore(result.docs[k])
            /\ result.docs[k].rerank_score = logits[<<query, result.docs[k].text>>]

\* the model failed on a later batch, after an earlier batch was scored
C4_Witness ==
  pc = "done" /\ failed = "reranker_model" /\ Len(scores) > 0 /\ Len(scores) < Len(pairs)

\* C5: in the list returned by rerank and in the list returned by retrieve,
\* the rerank score of every entry is >= the score of the entry after it.
C5_DescendingOrder ==
  /\ Descending(reranked_docs)
  /\ (caller = "retrieve" /\ result.kind = "list") => Descending(result.docs)

C5_Witness ==
  /\ FilterRan
  /\ Len(result.docs) >= 2
  /\ result.docs[1].rerank_score > LastOf(result.docs).rerank_score
  /\ retrieved_docs[1].rerank_score < LastOf(retrieved_docs).rerank_score

\* C6: candidates with equal rerank scores keep, in the output of rerank
\* and in the result of retrieve, the relative order in which they were
\* passed in (the order of the vector index).
KeepsInputOrderOfTies(out) ==
  \A k, l \in 1..Len(out) :
    (k < l /\ out[k].rerank_score = out[l].rerank_score)
      => \E a, b \in 1..Len(rerank_input) :
           /\ a < b
           /\ rerank_input[a] = Strip(out[k])
           /\ rerank_input[b] = Strip(out[l])

C6_StableSort ==
  /\ RerankReturned => KeepsInputOrderOfTies(reranked_docs)
  /\ FilterRan => KeepsInputOrderOfTies(result.docs)

\* two tied candidates are returned and a higher one passed in after them
\* was moved in front of them
C6_Witness ==
  /\ FilterRan
  /\ Len(result.docs) >= 3
  /\ result.docs[2].rerank_score = result.docs[3].rerank_score
  /\ result.docs[1].rerank_score > result.docs[2].rerank_score
  /\ Strip(result.docs[1]) # rerank_input[1]

\* C7: the threshold filter keeps a candidate whose rerank score equals
\* relevance_threshold and drops a candidate only when its score is
\* strictly below relevance_threshold.
C7_InclusiveThreshold ==
  FilterRan
    => \A k \in 1..Len(reranked_docs) :
         /\ reranked_docs[k].rerank_score = relevance_threshold
              => InSeq(reranked_docs[k], filtered_docs)
         /\ ~InSeq(reranked_docs[k], filtered_docs)
              => reranked_docs[k].rerank_score < relevance_threshold

C7_Witness ==
  /\ FilterRan
  /\ \E k \in 1..Len(filtered_docs) :
       filtered_docs[k].rerank_score = relevance_threshold
  /\ \E k \in 1..Len(reranked_docs) : ~InSeq(reranked_docs[k], filtered_docs)

\* C8: when more candidates pass the threshold than n_final (n_final >= 0),
\* retrieve returns exactly n_final of them, in descending score order, and
\* no passing candidate left out scores strictly higher than a returned one.
C8_TopNFinal ==
  (FilterRan /\ n_final >= 0 /\ Cardinality(Passing) > n_final)
    => /\ result.kind = "list"
       /\ Len(result.docs) = n_final
       /\ Descending(result.docs)
       /\ \A k \in 1..Len(result.docs) :
            /\ CountIn(result.docs[k], result.docs) = 1
            /\ \E p \in Passing : retrieved_docs[p] = result.docs[k]
       /\ \A p \in Passing :
            ~InSeq(retrieved_docs[p], result.docs)
              => \A k \in 1..Len(result.docs) :
                   retrieved_docs[p].rerank_score <= result.docs[k].rerank_score

\* a passing candidate with a lower score than a returned one is cut
C8_Witness ==
  /\ FilterRan /\ n_final >= 1 /\ Cardinality(Passing) > n_final
  /\ \E p \in Passing :
       /\ ~InSeq(retrieved_docs[p], result.docs)
       /\ retrieved_docs[p].rerank_score < result.docs[1].rerank_score

\* C9: when the vector index returns zero candidates, retrieve returns an
\* empty sequence and the reranker is not invoked in that call.
C9_EmptyIndexSkipsReranker ==
  (pc = "done" /\ caller = "retrieve" /\ failed = "none" /\ retrieved_docs = <<>>)
    => /\ error = "none"
       /\ result = ListResult(<<>>)
       /\ ~InSeq("rerank", stages)
       /\ ~InSeq("batch", stages)

C9_Witness ==
  /\ RetrieveReturned /\ retrieved_docs = <<>> /\ result = ListResult(<<>>)
  /\ use_reranker /\ n_initial > 0 /\ n_final > 0

\* C10: rerank returns a permutation of its input (same multiset of
\* candidates, text, metadata and distance unchanged, nothing but the score
\* added) and every returned candidate carries the score the model gives to
\* the pair (query, text of that candidate).
C10_RerankPermutation ==
  RerankReturned
    => /\ Len(reranked_docs) = Len(rerank_input)
       /\ \A k \in 1..Len(rerank_input) :
            CountIn(rerank_input[k], [l \in 1..Len(reranked_docs) |-> Strip(reranked_docs[l])])
              = CountIn(rerank_input[k], rerank_input)
       /\ \A k \in 1..Len(reranked_docs) :
            /\ DOMAIN reranked_docs[k] = {"text", "metadata", "distance", "rerank_score"}
            /\ reranked_docs[k].rerank_score
                 = logits[<<query, reranked_docs[k].text>>]

\* a direct call of rerank scored in several batches and reordered its input
C10_Witness ==
  /\ pc = "done" /\ caller = "rerank" /\ error = "none"
  /\ batch_size < Len(rerank_input)
  /\ Len(rerank_input) % batch_size # 0
  /\ Strip(reranked_docs[1]) # rerank_input[1]

\* C11: reranking is batch-size independent: whatever batch size a rerank
\* call ran with (1..MaxBatch directly, 8 inside retrieve), every candidate
\* has the score, and the output has the order, that batch size 1 gives.
C11_BatchSizeIndependent ==
  RerankReturned
    => /\ scores = ScoresFrom(logits, MakePairs(query, rerank_input), 0, 1)
       /\ reranked_docs = RerankValue(logits, query, rerank_input, 1)
       /\ \A bs \in BatchSizes \cup {DefaultBatchSize} :
            RerankValue(logits, query, rerank_input, bs)
              = RerankValue(logits, query, rerank_input, 1)

\* a direct call with a batch size that does not divide the candidate count,
\* on candidates that do not all score alike
C11_Witness ==
  /\ pc = "done" /\ caller = "rerank" /\ error = "none"
  /\ batch_size > 1
  /\ Len(rerank_input) > batch_size
  /\ Len(rerank_input) % batch_size # 0
  /\ \E k, l \in 1..Len(scores) : scores[k] # scores[l]

\* C13: retrieve (and rerank) is read-only: no step of any call, successful,
\* empty or failing, changes the index contents or the retriever's
\* configuration (collection, scoring model, use_reranker, reranker).
C13_ReadOnly == [][config' = config]_vars

C13_Witness ==
  /\ pc = "done" /\ caller = "retrieve"
  /\ collection # <<>>
  /\ \E k \in 1..Len(retrieved_docs) : HasScore(retrieved_docs[k])

\* C14: the stages of one retrieve call run in the order embed, index
\* query, rerank, filter, each at most once; the index is queried with the
\* embedding of the query; the reranker gets the original query text and
\* the full candidate batch; the filter runs after every candidate is scored.
StageOrder == <<"embed", "query", "rerank", "filter">>
IsStage(s) == s # "batch"

C14_StageOrder ==
  caller = "retrieve"
    => LET main == SelectSeq(stages, IsStage)
       IN /\ Len(main) <= Len(StageOrder)
          /\ main = SubSeq(StageOrder, 1, Len(main))
          /\ \A k \in 1..Len(stages) :
               stages[k] = "batch"
                 => /\ \E j \in 1..(k - 1) : stages[j] = "rerank"
                    /\ \A j \in 1..(k - 1) : stages[j] # "filter"
          /\ (InSeq("query", stages) /\ failed # "embedding_model")
               => query_embedding = Encode(query)
          /\ InSeq("rerank", stages)
               => /\ rerank_input
                       = BuildDocs(CollectionQuery(collection, Encode(query), n_initial))
                  /\ Len(pairs) = Len(rerank_input)
                  /\ \A k \in 1..Len(pairs) :
                       pairs[k] = <<query, rerank_input[k].text>>
          /\ InSeq("filter", stages)
               => /\ Len(scores) = Len(pairs)
                  /\ \A k \in 1..Len(retrieved_docs) : HasScore(retrieved_docs[k])

C14_Witness ==
  /\ FilterRan /\ query = "q2"
  /\ stages = <<"embed", "query", "rerank", "batch", "filter">>
  /\ Len(result.docs) >= 1

\* C12: a retrieve call repeated with identical inputs against the same
\* index and the same scoring model returns the same ordered output (scores
\* included) as the first call, when no collaborator fails in either.
C12_Idempotent ==
  (pc = "done" /\ prev.kind = "repeated" /\ failed = "none" /\ prev.failed = "none")
    => /\ result = prev.result
       /\ error = prev.error

C12_Witness ==
  /\ pc = "done" /\ prev.kind = "repeated" /\ failed = "none"
  /\ result.kind = "list"
  /\ Len(result.docs) >= 2
  /\ result.docs[1].rerank_score > result.docs[2].rerank_score
  /\ result = prev.result

\* C15: in every interleaving of two retrieve calls on one retriever, a
\* call that no collaborator fails returns what it returns when run alone,
\* and a call that a collaborator fails ends in that collaborator's error.
AsAlone(c) ==
  (c.pc = "done" /\ c.caller = "retrieve")
    => IF c.failed = "none"
       THEN /\ c.error = "none"
            /\ c.result = RetrieveValue(c.query, c.n_initial, c.n_final,
                                        c.relevance_threshold)
       ELSE /\ c.error = ExceptionOf(c.failed)
            /\ c.result = NoResult

C15_NoInterference == AsAlone(CallState) /\ AsAlone(parked)

\* both calls have returned, with different arguments and different results,
\* and both were scored by the reranker
C15_Witness ==
  /\ pc = "done" /\ parked.pc = "done"
  /\ failed = "none" /\ parked.failed = "none"
  /\ query # parked.query
  /\ n_final # parked.n_final
  /\ result.kind = "list" /\ parked.result.kind = "list"
  /\ result # parked.result
  /\ Len(result.docs) >= 1 /\ Len(parked.result.docs) >= 1

\* C16: a retrieve call whose time bound is exceeded fails with
\* RetrievalTimeout and returns nothing.
C16_BoundedByTimeout ==
  (caller = "retrieve" /\ pc = "done" /\ deadline_passed)
    => /\ error = "RetrievalTimeout"
       /\ result = NoResult

\* ---------------------------------------------------------------------------
\* The question-answering layer: ConstitutionQA.answer_question and
\* answer_batch, the interaction log, and the /ask endpoint.

\* dict.get(key, default)
Get(d, key, default) == IF key \in DOMAIN d THEN d[key] ELSE default

\* PromptEngineer.format_context: the parts that "\n\n".join puts together,
\* one per document, numbered from 1; no document gives the empty string
FormatContext(docs) ==
  [k \in 1..Len(docs) |->
     [source |-> k,
      chapter |-> docs[k].metadata.chapter,
      article |-> docs[k].metadata.article_number,
      text |-> docs[k].text]]

\* PromptEngineer.create_system_prompt, called without chat_history
CreateSystemPrompt(q, docs) == [query |-> q, context |-> FormatContext(docs)]

\* the sources list answer_question builds from the documents
Sources(docs) ==
  [k \in 1..Len(docs) |->
     [article_number |-> docs[k].metadata.article_number,
      chapter |-> docs[k].metadata.chapter,
      text_excerpt |-> docs[k].text,
      score |-> Get(docs[k], "rerank_score", Get(docs[k], "score", 0))]]

\* a str value
Str(s) == [kind |-> "str", value |-> s]

\* what the chain can return after .strip(): some text, or nothing
Responses == {Str("answer"), Str("")}

\* response_text or "Не удалось получить ответ от LLM" (written here in
\* English); a string is the sequence of its parts
AnswerOf(text) ==
  IF text = NoneValue \/ text = Str("") THEN <<"no answer from the LLM">>
  ELSE <<text.value>>

\* the result dict of the success path
SuccessResult(q, text, docs) ==
  [query |-> q, answer |-> AnswerOf(text), sources |-> Sources(docs),
   model |-> "mistral:instruct"]

\* f"Произошла ошибка при обработке запроса: {str(e)}" (written here in
\* English)
ErrorAnswer(e) == <<"error while processing the request: ", e>>

\* the error_result dict of the handler
ErrorResult(q, e) ==
  [query |-> q, answer |-> ErrorAnswer(e), sources |-> <<>>, error |-> e]

\* the line _log_interaction writes
LogEntry(q, context, response, sources) ==
  [query |-> q, context |-> context, response |-> response,
   sources |-> sources, model |-> "mistral:instruct"]

\* with open(log_file, "a"): the line goes after everything the file holds
AppendLineTruncating(lines, entry) == <<entry>>

AppendLine(lines, entry) == Append(lines, entry)

\* if attempt == self.max_retries - 1: raise
IsLastAttemptAlways(a, mr) == TRUE

IsLastAttempt(a, mr) == a = mr - 1

\* the exception except Exception catches when retrieve returned None:
\* len(documents) raises TypeError
LenOfNone == "TypeError"

\* the first statements of answer_question up to the call of retrieve
StartAnswer(q, ni, nf) ==
  /\ aq_pc' = "retrieve"
  /\ aq_query' = q
  /\ aq_documents' = <<>>
  /\ prompt_vars' = NoPrompt
  /\ attempt' = 0
  /\ response_text' = NoneValue
  /\ aq_exc' = "none"
  /\ aq_result' = NoResult
  /\ aq_raised' = "none"
  /\ retrieval' = "none"
  /\ attempts' = <<>>
  /\ retrieve_calls' = 1
  /\ log_at_start' = Len(log')
  /\ StartRetrieve(q, ni, nf, DefaultThreshold)

\* a client call begins: the lines of earlier calls become old lines
StartClient(c) ==
  /\ client = "none"
  /\ pc = "idle"
  /\ client' = c
  /\ old_lines' = Min(MaxOldLines, old_lines + Len(log))
  /\ log' = <<>>
  /\ log_failed' = FALSE
  /\ http' = NoResponse
  /\ UNCHANGED <<max_retries, prev, parked>>

QANFinals == {1, DefaultNFinal}

\* a client calls answer_question(query, n_initial, n_final)
AnswerQuestion ==
  /\ StartClient("answer_question")
  /\ \E q \in Queries, nf \in QANFinals : StartAnswer(q, DefaultNInitial, nf)
  /\ UNCHANGED <<batch_queries, batch_results>>

\* a step of answer_question that leaves the retriever alone
AnswerStep ==
  /\ pc = "idle"
  /\ UNCHANGED <<config, call, prev, parked, max_retries, client, aq_query,
                 batch_queries, batch_results, old_lines, http,
                 retrieve_calls, log_at_start>>

\* except Exception as e: the handler takes over with e
Caught(e) ==
  /\ aq_exc' = e
  /\ aq_pc' = "log_error"

\* retrieve has ended: documents = self.retriever.retrieve(...), then
\* len(documents), then prompt_vars = create_system_prompt(...), then the loop
\* for attempt in range(self.max_retries) is entered, or skipped when the range
\* is empty
AfterRetrieve ==
  /\ aq_pc = "retrieve"
  /\ pc = "done"
  /\ ReturnToIdle
  /\ UNCHANGED <<prev, parked, max_retries, client, aq_query, batch_queries,
                 batch_results, old_lines, http, retrieve_calls, log_at_start,
                 log, log_failed, attempt, response_text, aq_result, aq_raised,
                 attempts>>
  /\ IF error # "none"
       THEN /\ retrieval' = "raised"
            /\ Caught(error)
            /\ UNCHANGED <<aq_documents, prompt_vars>>
     ELSE IF result = NoneResult
       THEN /\ retrieval' = "None"
            /\ Caught(LenOfNone)
            /\ UNCHANGED <<aq_documents, prompt_vars>>
     ELSE /\ retrieval' = "list"
          /\ aq_documents' = result.docs
          /\ prompt_vars' = CreateSystemPrompt(aq_query, result.docs)
          /\ aq_exc' = "none"
          /\ aq_pc' = IF max_retries > 0 THEN "generate" ELSE "log"

\* response_text = self.chain.invoke(prompt_vars).strip(); break
Generate(text) ==
  /\ AnswerStep
  /\ aq_pc = "generate"
  /\ response_text' = text
  /\ attempts' = Append(attempts, "ok")
  /\ aq_pc' = "log"
  /\ UNCHANGED <<aq_documents, prompt_vars, attempt, aq_exc, aq_result,
                 aq_raised, retrieval, log, log_failed>>

\* the chain raises: the last attempt re-raises, an earlier one sleeps and
\* the loop goes on
GenerateFails ==
  /\ AnswerStep
  /\ aq_pc = "generate"
  /\ attempts' = Append(attempts, "fail")
  /\ IF IsLastAttempt(attempt, max_retries)
       THEN Caught("LLMError") /\ UNCHANGED attempt
       ELSE attempt' = attempt + 1 /\ UNCHANGED <<aq_pc, aq_exc>>
  /\ UNCHANGED <<aq_documents, prompt_vars, response_text, aq_result,
                 aq_raised, retrieval, log, log_failed>>

\* result = {...}; self._log_interaction(...); return result
LogInteraction ==
  /\ AnswerStep
  /\ aq_pc = "log"
  /\ aq_result' = SuccessResult(aq_query, response_text, aq_documents)
  /\ log' = AppendLine(log, LogEntry(aq_query, prompt_vars.context,
                                     AnswerOf(response_text),
                                     Sources(aq_documents)))
  /\ aq_pc' = "returned"
  /\ UNCHANGED <<aq_documents, prompt_vars, attempt, response_text, aq_exc,
                 aq_raised, retrieval, attempts, log_failed>>

\* the write of the success path raises inside the try: the handler takes over
LogInteractionFails ==
  /\ AnswerStep
  /\ aq_pc = "log"
  /\ log_failed' = TRUE
  /\ Caught("LogWriteError")
  /\ UNCHANGED <<aq_documents, prompt_vars, attempt, response_text, aq_result,
                 aq_raised, retrieval, attempts, log>>

\* the handler: error_result = {...}; self._log_interaction(...);
\* return error_result
LogError ==
  /\ AnswerStep
  /\ aq_pc = "log_error"
  /\ aq_result' = ErrorResult(aq_query, aq_exc)
  /\ log' = AppendLine(log, LogEntry(aq_query, <<>>, ErrorAnswer(aq_exc), <<>>))
  /\ aq_pc' = "returned"
  /\ UNCHANGED <<aq_documents, prompt_vars, attempt, response_text, aq_exc,
                 aq_raised, retrieval, attempts, log_failed>>

\* the write of the handler raises: nothing catches it in answer_question
LogErrorFails ==
  /\ AnswerStep
  /\ aq_pc = "log_error"
  /\ log_failed' = TRUE
  /\ aq_raised' = "LogWriteError"
  /\ aq_pc' = "raised"
  /\ UNCHANGED <<aq_documents, prompt_vars, attempt, response_text, aq_exc,
                 aq_result, retrieval, attempts, log>>

\* the frame of answer_question is gone
ResetAnswer ==
  /\ aq_pc' = "idle" /\ aq_query' = "q1" /\ aq_documents' = <<>>
  /\ prompt_vars' = NoPrompt /\ attempt' = 0 /\ response_text' = NoneValue
  /\ aq_exc' = "none" /\ aq_result' = NoResult /\ aq_raised' = "none"
  /\ retrieval' = "none" /\ attempts' = <<>> /\ retrieve_calls' = 0
  /\ log_at_start' = 0

\* ------------------------------------------------------------------- /ask

\* HTTPException(status_code=..., detail=...)
HTTPException(code, detail) ==
  [kind |-> "HTTPException", status_code |-> code, detail |-> detail]

\* the body of the try of ask_question: answer_question is called; a result
\* with the key "error" raises HTTPException(500, detail=result["error"]);
\* any other result is returned
TryBody(raised, res) ==
  IF raised # "none" THEN [raises |-> raised]
  ELSE IF "error" \in DOMAIN res
    THEN [raises |-> HTTPException(HttpInternalServerError, res.error)]
  ELSE [returns |-> res]

\* except Exception as e: every exception of the body, the HTTPException
\* raised in it included, is replaced by HTTPException(500,
\* detail="Внутренняя ошибка сервера"), written here in English
AskResponse(raised, res) ==
  LET body == TryBody(raised, res)
  IN IF "raises" \in DOMAIN body
       THEN [status |-> HttpInternalServerError,
             detail |-> "internal server error"]
     ELSE [status |-> HttpOk, body |-> body.returns]

\* a client posts a question to /ask
Ask ==
  /\ StartClient("ask")
  /\ \E q \in Queries, nf \in QANFinals : StartAnswer(q, DefaultNInitial, nf)
  /\ UNCHANGED <<batch_queries, batch_results>>

\* answer_question has ended; the endpoint answers
AskRespond ==
  /\ client = "ask"
  /\ aq_pc \in {"returned", "raised"}
  /\ http' = AskResponse(aq_raised, aq_result)
  /\ aq_pc' = "responded"
  /\ UNCHANGED <<config, call, prev, parked, max_retries, client, aq_query,
                 aq_documents, prompt_vars, attempt, response_text, aq_exc,
                 aq_result, aq_raised, log, old_lines, batch_queries,
                 batch_results, aq_history>>

\* ----------------------------------------------------------- answer_batch

\* the query lists clients hand to answer_batch
Batches == {<<>>, <<"q1">>, <<"q1", "q2">>, <<"q2", "q2">>}

\* results = []; for query in queries: the first answer_question call, or the
\* return of the empty list
AnswerBatch(queries) ==
  /\ StartClient("answer_batch")
  /\ batch_queries' = queries
  /\ batch_results' = <<>>
  /\ IF queries = <<>>
       THEN /\ aq_pc' = "batch_returned"
            /\ UNCHANGED <<config, call, aq_query, aq_documents, prompt_vars,
                           attempt, response_text, aq_exc, aq_result,
                           aq_raised, retrieval, attempts, retrieve_calls,
                           log_at_start>>
     ELSE StartAnswer(queries[1], DefaultNInitial, DefaultNFinal)

\* results.append(result); the next query, or return results
BatchNext ==
  /\ client = "answer_batch"
  /\ aq_pc = "returned"
  /\ pc = "idle"
  /\ batch_results' = Append(batch_results, aq_result)
  /\ UNCHANGED <<prev, parked, max_retries, client, log, old_lines, http,
                 batch_queries, log_failed>>
  /\ IF Len(batch_results) + 1 < Len(batch_queries)
       THEN StartAnswer(batch_queries[Len(batch_results) + 2],
                        DefaultNInitial, DefaultNFinal)
     ELSE /\ aq_pc' = "batch_returned"
          /\ UNCHANGED <<config, call, aq_query, aq_documents, prompt_vars,
                         attempt, response_text, aq_exc, aq_result,
                         aq_raised, retrieval, attempts, retrieve_calls,
                         log_at_start>>

\* the client has taken what its call gave; nothing is in progress
Finish ==
  /\ \/ client = "answer_question" /\ aq_pc \in {"returned", "raised"}
     \/ client = "ask" /\ aq_pc = "responded"
     \/ client = "answer_batch" /\ aq_pc \in {"batch_returned", "raised"}
  /\ client' = "none"
  /\ ResetAnswer
  /\ batch_queries' = <<>> /\ batch_results' = <<>>
  /\ UNCHANGED <<config, call, prev, parked, max_retries, log, old_lines,
                 http, log_failed>>

MaxRetriesValues == {0, 1, DefaultMaxRetries}

NextQA ==
  \/ AnswerQuestion
  \/ Ask
  \/ \E queries \in Batches : AnswerBatch(queries)
  \/ RetrieveStep
  \/ AfterRetrieve
  \/ \E text \in Responses : Generate(text)
  \/ GenerateFails
  \/ LogInteraction
  \/ LogInteractionFails
  \/ LogError
  \/ LogErrorFails
  \/ AskRespond
  \/ BatchNext
  \/ Finish

InitQA ==
  /\ InitRetriever
  /\ logits \in [Queries \X Texts -> {1, MaxScore}]
  /\ max_retries \in MaxRetriesValues
  /\ InitIdle

SpecQA == InitQA /\ [][NextQA]_vars

\* ---------------------------------------------------------------------------
\* Properties of the question-answering layer, checked under SpecQA.

HasError(res) == "error" \in DOMAIN res

AllFailed(outcomes) == \A k \in 1..Len(outcomes) : outcomes[k] = "fail"

\* the exceptions of retrieval and of answer generation
RetrievalOrGenerationErrors ==
  {ExceptionOf("embedding_model"), ExceptionOf("collection"),
   ExceptionOf("reranker_model"), "LLMError"}

\* an answer_question call is in progress or has just ended
InAnswer == aq_pc \notin {"idle", "batch_returned"}

\* C17: answer_question never lets a failure of retrieval or of generation
\* reach its caller; the result it returns has the key 'error' exactly when
\* retrieval failed or all max_retries generation attempts failed, and then
\* its sources are empty; a result without 'error' lists one source per
\* retrieved document.
C17_ErrorIffFailure ==
  /\ aq_pc = "raised" => aq_raised \notin RetrievalOrGenerationErrors
  /\ aq_pc = "returned" =>
       /\ HasError(aq_result) <=>
            \/ retrieval = "raised"
            \/ /\ max_retries > 0
               /\ Len(attempts) = max_retries
               /\ AllFailed(attempts)
       /\ HasError(aq_result) => aq_result.sources = <<>>
       /\ ~HasError(aq_result) =>
            Len(aq_result.sources) = Len(aq_documents)

\* C18: one answer_question call makes one retrieve call; the chain is invoked
\* at most max_retries times, one attempt after the other, each new attempt
\* after a failed one and none after a successful one, and none before
\* retrieval has returned; the failure of the chain is re-raised only when
\* max_retries attempts have failed.
C18_RetryDiscipline ==
  InAnswer =>
    /\ retrieve_calls = 1
    /\ Len(attempts) <= max_retries
    /\ \A k \in 1..(Len(attempts) - 1) : attempts[k] = "fail"
    /\ attempts # <<>> => retrieval = "list"
    /\ aq_pc = "generate" => AllFailed(attempts) /\ Len(attempts) = attempt
    /\ aq_exc = "LLMError" =>
         Len(attempts) = max_retries /\ AllFailed(attempts)

\* the third of three attempts has failed and the handler has the failure
C18_Witness ==
  /\ max_retries = DefaultMaxRetries
  /\ aq_pc = "log_error"
  /\ aq_exc = "LLMError"
  /\ attempts = <<"fail", "fail", "fail">>

\* C19: /ask answers 500 with the text of the 'error' field as its detail
\* when the result of answer_question has that field, and 200 with the
\* result unchanged when it has none.
C19_AskMapsError ==
  (client = "ask" /\ aq_pc = "responded" /\ aq_raised = "none") =>
    IF HasError(aq_result)
      THEN /\ http.status = HttpInternalServerError
           /\ http.detail = aq_result.error
    ELSE /\ http.status = HttpOk
         /\ http.body = aq_result

\* C20: when no log write fails, an answer_question call that returns has
\* appended one entry, its own, after the lines the log held when the call
\* began, whether it returns an answer or an error; answer_batch has then
\* appended one entry per query and returns one result per query, both in the
\* order of the queries.
C20_OneEntryPerCall ==
  /\ (aq_pc = "returned" /\ ~log_failed) =>
       /\ Len(log) = log_at_start + 1
       /\ log[Len(log)].query = aq_query
       /\ log[Len(log)].response = aq_result.answer
  /\ (client = "answer_batch" /\ aq_pc = "batch_returned" /\ ~log_failed) =>
       /\ Len(log) = Len(batch_queries)
       /\ Len(batch_results) = Len(batch_queries)
       /\ \A k \in 1..Len(batch_queries) :
            /\ batch_results[k].query = batch_queries[k]
            /\ log[k].query = batch_queries[k]
            /\ log[k].response = batch_results[k].answer

\* a batch of two queries has returned: the first query met a failure, the
\* second was answered
C20_Witness ==
  /\ client = "answer_batch"
  /\ aq_pc = "batch_returned"
  /\ ~log_failed
  /\ batch_queries = <<"q1", "q2">>
  /\ Len(log) = Len(batch_queries)
  /\ HasError(batch_results[1])
  /\ ~HasError(batch_results[2])

====
